---- MODULE Spec2Model ----
(***************************************************************************)
(* TapeView / TapeViewStack of tapeagents/view.py: the call-stack state    *)
(* machine that folds a tape (a flat sequence of steps) into a stack of    *)
(* per-agent frames plus a message index, and the identity-keyed cache of  *)
(* TapeViewStack.compute.                                                  *)
(*                                                                         *)
(* Strings that the code splits or joins on "/" (step.by, agent_full_name, *)
(* the keys of messages_by_agent) are sequences of tokens in which "/" is  *)
(* an ordinary token, so that split, rsplit and concatenation are computed *)
(* as the code computes them: "root/B" is <<"root", "/", "B">>, the empty  *)
(* string is <<>>.                                                         *)
(***************************************************************************)
EXTENDS Integers, Sequences, FiniteSets, TLC

VARIABLES
    stack,              \* TapeViewStack.stack of the stack object under update
    messages_by_agent,  \* TapeViewStack.messages_by_agent of that object
    raised,             \* exception raised by the last update ("" when none)
    tape,               \* the steps fed to update so far, in order
    hist,               \* hist[i+1]: the object's state after the first i steps
    heap,               \* live Tape objects: address -> [oid, steps]
    view_stack_cache,   \* _view_stack_cache: id(tape) -> cached stack
    allocated,          \* number of Tape objects created so far
    calls               \* the compute calls made so far, in order

vars == <<stack, messages_by_agent, raised, tape, hist,
          heap, view_stack_cache, allocated, calls>>

updVars == <<stack, messages_by_agent, raised, tape, hist>>
cacheVars == <<heap, view_stack_cache, allocated, calls>>

-----------------------------------------------------------------------------
(* Bounds of the model *)

MaxSteps == 4         \* steps fed to update in the general specification
MaxNestedSteps == 7   \* steps fed to update in the nested-call specification
MaxTapes == 2         \* Tape objects created in the cache specification
MaxComputes == 3      \* compute calls made in the cache specification
MaxTapeLen == 1       \* steps of a tape in the cache specification

-----------------------------------------------------------------------------
(* Strings with "/" *)

Str(name) == <<name>>
EmptyStr == <<>>
Slash == <<"/">>
Path2(a, b) == <<a, "/", b>>
Path3(a, b, c) == <<a, "/", b, "/", c>>

HasSlash(s) == \E i \in 1..Len(s) : s[i] = "/"
FirstSlash(s) == CHOOSE i \in 1..Len(s) : s[i] = "/" /\ \A j \in 1..(i-1) : s[j] # "/"
LastSlash(s) == CHOOSE i \in 1..Len(s) : s[i] = "/" /\ \A j \in (i+1)..Len(s) : s[j] # "/"

\* str.split("/"): the list of segments, [""] for the empty string
RECURSIVE split(_)
split(s) ==
    IF HasSlash(s)
    THEN <<SubSeq(s, 1, FirstSlash(s) - 1)>> \o split(SubSeq(s, FirstSlash(s) + 1, Len(s)))
    ELSE <<s>>

\* str.rsplit("/", 1)[0]: the string before its last "/", the string itself without one
rsplit_head(s) ==
    IF HasSlash(s) THEN SubSeq(s, 1, LastSlash(s) - 1) ELSE s

-----------------------------------------------------------------------------
(* Steps *)

NoBy == <<>>

Call(by, agent_name, prompt_id) ==
    [cls |-> "Call", kind |-> "call", by |-> by, prompt_id |-> prompt_id,
     agent_name |-> agent_name, to |-> <<>>, next_node |-> 0]

Respond(by, prompt_id) ==
    [cls |-> "Respond", kind |-> "return", by |-> by, prompt_id |-> prompt_id,
     agent_name |-> <<>>, to |-> <<>>, next_node |-> 0]

Broadcast(by, to, prompt_id) ==
    [cls |-> "Broadcast", kind |-> "broadcast", by |-> by, prompt_id |-> prompt_id,
     agent_name |-> <<>>, to |-> to, next_node |-> 0]

Jump(by, next_node, prompt_id) ==
    [cls |-> "Jump", kind |-> "jump", by |-> by, prompt_id |-> prompt_id,
     agent_name |-> <<>>, to |-> <<>>, next_node |-> next_node]

AgentStep(by, prompt_id) ==
    [cls |-> "AgentStep", kind |-> "thought", by |-> by, prompt_id |-> prompt_id,
     agent_name |-> <<>>, to |-> <<>>, next_node |-> 0]

Observation ==
    [cls |-> "Observation", kind |-> "observation", by |-> NoBy, prompt_id |-> "",
     agent_name |-> <<>>, to |-> <<>>, next_node |-> 0]

OtherStep ==
    [cls |-> "Step", kind |-> "step", by |-> NoBy, prompt_id |-> "",
     agent_name |-> <<>>, to |-> <<>>, next_node |-> 0]

\* isinstance(step, AgentStep): Call, Respond, Broadcast and Jump are Thoughts
IsAgentStep(step) == step.cls \in {"Call", "Respond", "Broadcast", "Jump", "AgentStep"}

-----------------------------------------------------------------------------
(* TapeView *)

TapeView(agent_name, agent_full_name) ==
    [agent_name |-> agent_name, agent_full_name |-> agent_full_name,
     steps |-> <<>>, steps_by_kind |-> <<>>, next_node |-> 0,
     last_prompt_id |-> "", outputs_by_subagent |-> <<>>]

add_step(view, step) ==
    [view EXCEPT
        !.steps = Append(@, step),
        !.steps_by_kind =
            IF step.kind \in DOMAIN @
            THEN [@ EXCEPT ![step.kind] = Append(@, step)]
            ELSE @ @@ (step.kind :> <<step>>)]

\* dict[key] = value on a dict kept as its items in insertion order
DictKeys(d) == {d[i].key : i \in 1..Len(d)}
DictIndex(d, key) == CHOOSE i \in 1..Len(d) : d[i].key = key
DictGet(d, key) == d[DictIndex(d, key)].value
DictSet(d, key, value) ==
    IF key \in DictKeys(d)
    THEN [d EXCEPT ![DictIndex(d, key)] = [key |-> key, value |-> value]]
    ELSE Append(d, [key |-> key, value |-> value])

\* the argument of get_output: an int or a str
IntRef(i) == [isint |-> TRUE, index |-> i, name |-> <<>>]
NameRef(name) == [isint |-> FALSE, index |-> 0, name |-> name]

\* list(self.outputs_by_subagent.values())[i] and self.outputs_by_subagent[name];
\* a negative index counts from the end of the list
get_output(view, ref) ==
    LET d == view.outputs_by_subagent
        n == Len(d)
    IN IF ref.isint
       THEN IF ref.index >= 0 /\ ref.index < n
            THEN [raised |-> "", value |-> d[ref.index + 1].value, view |-> view]
            ELSE IF ref.index < 0 /\ ref.index >= -n
            THEN [raised |-> "", value |-> d[n + ref.index + 1].value, view |-> view]
            ELSE [raised |-> "IndexError", value |-> <<>>, view |-> view]
       ELSE IF ref.name \in DictKeys(d)
            THEN [raised |-> "", value |-> DictGet(d, ref.name), view |-> view]
            ELSE [raised |-> "KeyError", value |-> <<>>, view |-> view]

-----------------------------------------------------------------------------
(* TapeViewStack *)

\* self.messages_by_agent[key].append(step) on a defaultdict(list)
MsgAppend(m, key, step) ==
    IF key \in DOMAIN m
    THEN [m EXCEPT ![key] = Append(@, step)]
    ELSE m @@ (key :> <<step>>)

Top(stk) == stk[Len(stk)]
SetTop(stk, view) == [stk EXCEPT ![Len(stk)] = view]

\* mutant: the whole of step.by is compared with the frame's full name
is_step_by_active_agent_whole(stk, step) ==
    IF ~IsAgentStep(step)
    THEN FALSE
    ELSE step.by = Top(stk).agent_full_name

is_step_by_active_agent(stk, step) ==
    IF ~IsAgentStep(step)
    THEN FALSE
    ELSE Tail(split(step.by)) = Tail(split(Top(stk).agent_full_name))

\* mutant: the Call is recorded and routed but no frame is pushed
put_new_view_no_push(S, step) ==
    [stack |-> SetTop(S.stack, add_step(Top(S.stack), step)),
     messages_by_agent |->
        MsgAppend(MsgAppend(S.messages_by_agent, step.by, step),
                  step.by \o Slash \o step.agent_name, step),
     raised |-> ""]

\* mutant: the callee's key is the bare agent name instead of by + "/" + name
put_new_view_bare_receiver(S, step) ==
    LET top == add_step(Top(S.stack), step)
    IN [stack |-> Append(SetTop(S.stack, top),
                         TapeView(step.agent_name,
                                  top.agent_full_name \o Slash \o step.agent_name)),
        messages_by_agent |->
            MsgAppend(MsgAppend(S.messages_by_agent, step.by, step), step.agent_name, step),
        raised |-> ""]

\* mutant: the Call is routed under the full names of the two frames
put_new_view_frame_keys(S, step) ==
    LET top == add_step(Top(S.stack), step)
        callee == top.agent_full_name \o Slash \o step.agent_name
    IN [stack |-> Append(SetTop(S.stack, top), TapeView(step.agent_name, callee)),
        messages_by_agent |->
            MsgAppend(MsgAppend(S.messages_by_agent, top.agent_full_name, step),
                      callee, step),
        raised |-> ""]

put_new_view_on_stack(S, step) ==
    LET top == add_step(Top(S.stack), step)
        receiver == step.by \o Slash \o step.agent_name
    IN [stack |-> Append(SetTop(S.stack, top),
                         TapeView(step.agent_name,
                                  top.agent_full_name \o Slash \o step.agent_name)),
        messages_by_agent |->
            MsgAppend(MsgAppend(S.messages_by_agent, step.by, step), receiver, step),
        raised |-> ""]

RECURSIVE BroadcastTo(_, _, _)
BroadcastTo(m, step, i) ==
    IF i > Len(step.to) THEN m
    ELSE BroadcastTo(MsgAppend(m, step.by \o Slash \o step.to[i], step), step, i + 1)

\* mutant: the Broadcast is also routed to the broadcaster's own list
broadcast_and_sender(S, step) ==
    [stack |-> SetTop(S.stack, add_step(Top(S.stack), step)),
     messages_by_agent |->
        BroadcastTo(MsgAppend(S.messages_by_agent, step.by, step), step, 1),
     raised |-> ""]

broadcast(S, step) ==
    [stack |-> SetTop(S.stack, add_step(Top(S.stack), step)),
     messages_by_agent |-> BroadcastTo(S.messages_by_agent, step, 1),
     raised |-> ""]

\* mutant: the caller's own steps are not excluded from the scan
IsOutputStep_any_agent(stk, top_step) ==
    top_step.cls \notin {"Call", "Respond"}

\* the condition of the reverse scan over the popped frame's steps
IsOutputStep(stk, top_step) ==
    top_step.cls \notin {"Call", "Respond"} /\ ~is_step_by_active_agent(stk, top_step)

\* mutant: the scan runs forward and stops at the first step that qualifies
OutputIndex_first(stk, steps) ==
    CHOOSE i \in 1..Len(steps) :
        /\ IsOutputStep(stk, steps[i])
        /\ \A j \in 1..(i-1) : ~IsOutputStep(stk, steps[j])

\* the step the reverse scan stops at: the last one that satisfies the condition
OutputIndex(stk, steps) ==
    CHOOSE i \in 1..Len(steps) :
        /\ IsOutputStep(stk, steps[i])
        /\ \A j \in (i+1)..Len(steps) : ~IsOutputStep(stk, steps[j])

\* mutant: the Respond does not advance the node of the frame it returns to
pop_view_no_turn(S, step) ==
    LET top == Top(S.stack)
        popped == SubSeq(S.stack, 1, Len(S.stack) - 1)
    IN IF popped = <<>>
       THEN [stack |-> popped, messages_by_agent |-> S.messages_by_agent,
             raised |-> "IndexError"]
       ELSE LET new_top == Top(popped)
                found == \E i \in 1..Len(top.steps) : IsOutputStep(popped, top.steps[i])
                top_step == top.steps[OutputIndex(popped, top.steps)]
                new_top2 ==
                    IF found
                    THEN [add_step(new_top, top_step) EXCEPT
                            !.outputs_by_subagent = DictSet(@, top.agent_name, top_step)]
                    ELSE new_top
            IN [stack |-> SetTop(popped, add_step(new_top2, step)),
                messages_by_agent |->
                    MsgAppend(MsgAppend(S.messages_by_agent, step.by, step),
                              rsplit_head(step.by), step),
                raised |-> ""]

\* mutant: the Respond is recorded in the caller's frame before the output
pop_view_respond_first(S, step) ==
    LET top == Top(S.stack)
        popped == SubSeq(S.stack, 1, Len(S.stack) - 1)
    IN IF popped = <<>>
       THEN [stack |-> popped, messages_by_agent |-> S.messages_by_agent,
             raised |-> "IndexError"]
       ELSE LET new_top == add_step([Top(popped) EXCEPT !.next_node = @ + 1], step)
                stk1 == SetTop(popped, new_top)
                found == \E i \in 1..Len(top.steps) : IsOutputStep(stk1, top.steps[i])
                top_step == top.steps[OutputIndex(stk1, top.steps)]
                new_top2 ==
                    IF found
                    THEN [add_step(new_top, top_step) EXCEPT
                            !.outputs_by_subagent = DictSet(@, top.agent_name, top_step)]
                    ELSE new_top
            IN [stack |-> SetTop(popped, new_top2),
                messages_by_agent |->
                    MsgAppend(MsgAppend(S.messages_by_agent, step.by, step),
                              rsplit_head(step.by), step),
                raised |-> ""]

pop_view_from_stack(S, step) ==
    LET top == Top(S.stack)
        popped == SubSeq(S.stack, 1, Len(S.stack) - 1)
    IN IF popped = <<>>
       THEN \* self.stack[-1] on the emptied list
            [stack |-> popped, messages_by_agent |-> S.messages_by_agent,
             raised |-> "IndexError"]
       ELSE LET new_top == [Top(popped) EXCEPT !.next_node = @ + 1]
                stk1 == SetTop(popped, new_top)
                found == \E i \in 1..Len(top.steps) : IsOutputStep(stk1, top.steps[i])
                top_step == top.steps[OutputIndex(stk1, top.steps)]
                new_top2 ==
                    IF found
                    THEN [add_step(new_top, top_step) EXCEPT
                            !.outputs_by_subagent = DictSet(@, top.agent_name, top_step)]
                    ELSE new_top
                receiver == rsplit_head(step.by)
            IN [stack |-> SetTop(popped, add_step(new_top2, step)),
                messages_by_agent |->
                    MsgAppend(MsgAppend(S.messages_by_agent, step.by, step), receiver, step),
                raised |-> ""]

\* the match statement of update
Dispatch(S, step) ==
    CASE step.cls = "Call" -> put_new_view_on_stack(S, step)
      [] step.cls = "Broadcast" -> broadcast(S, step)
      [] step.cls = "Respond" -> pop_view_from_stack(S, step)
      [] step.cls = "Jump" ->
            [stack |-> SetTop(S.stack, [Top(S.stack) EXCEPT !.next_node = step.next_node]),
             messages_by_agent |-> S.messages_by_agent, raised |-> ""]
      [] step.cls \in {"AgentStep", "Observation"} ->
            [stack |-> SetTop(S.stack, add_step(Top(S.stack), step)),
             messages_by_agent |-> S.messages_by_agent, raised |-> ""]
      [] OTHER ->
            [stack |-> S.stack, messages_by_agent |-> S.messages_by_agent,
             raised |-> "ValueError"]

\* mutant: every step of the active agent advances the node, whatever its prompt id
CountNode_every_step(S, step) ==
    IF is_step_by_active_agent(S.stack, step)
    THEN LET top == Top(S.stack)
             node == IF step.cls # "Jump" THEN top.next_node + 1 ELSE top.next_node
         IN [S EXCEPT !.stack = SetTop(S.stack,
                [top EXCEPT !.next_node = node, !.last_prompt_id = step.prompt_id])]
    ELSE S

\* mutant: a Jump with a new prompt id advances the node like any other step
CountNode_jump_counts(S, step) ==
    IF is_step_by_active_agent(S.stack, step)
    THEN LET top == Top(S.stack)
             node == IF step.prompt_id # top.last_prompt_id
                     THEN top.next_node + 1
                     ELSE top.next_node
         IN [S EXCEPT !.stack = SetTop(S.stack,
                [top EXCEPT !.next_node = node, !.last_prompt_id = step.prompt_id])]
    ELSE S

\* mutant: the node advances but the prompt id of the step is not remembered
CountNode_keeps_prompt_id(S, step) ==
    IF is_step_by_active_agent(S.stack, step)
    THEN LET top == Top(S.stack)
             node == IF step.cls # "Jump" /\ step.prompt_id # top.last_prompt_id
                     THEN top.next_node + 1
                     ELSE top.next_node
         IN [S EXCEPT !.stack = SetTop(S.stack, [top EXCEPT !.next_node = node])]
    ELSE S

\* mutant: the step of the active agent is counted on the root frame
CountNode_root_frame(S, step) ==
    IF is_step_by_active_agent(S.stack, step)
    THEN LET root == S.stack[1]
             node == IF step.cls # "Jump" /\ step.prompt_id # root.last_prompt_id
                     THEN root.next_node + 1
                     ELSE root.next_node
         IN [S EXCEPT !.stack[1] =
                [root EXCEPT !.next_node = node, !.last_prompt_id = step.prompt_id]]
    ELSE S

\* mutant: a Jump of the active agent does not record its prompt id
CountNode_jump_keeps_prompt(S, step) ==
    IF is_step_by_active_agent(S.stack, step) /\ step.cls # "Jump"
    THEN LET top == Top(S.stack)
             node == IF step.prompt_id # top.last_prompt_id
                     THEN top.next_node + 1
                     ELSE top.next_node
         IN [S EXCEPT !.stack = SetTop(S.stack,
                [top EXCEPT !.next_node = node, !.last_prompt_id = step.prompt_id])]
    ELSE S

\* the node counting at the end of update
CountNode(S, step) ==
    IF is_step_by_active_agent(S.stack, step)
    THEN LET top == Top(S.stack)
             node == IF step.cls # "Jump" /\ step.prompt_id # top.last_prompt_id
                     THEN top.next_node + 1
                     ELSE top.next_node
         IN [S EXCEPT !.stack = SetTop(S.stack,
                [top EXCEPT !.next_node = node, !.last_prompt_id = step.prompt_id])]
    ELSE S

update(S, step) ==
    IF S.stack = <<>>
    THEN \* top = self.stack[-1] on an empty list
         [stack |-> S.stack, messages_by_agent |-> S.messages_by_agent,
          raised |-> "IndexError"]
    ELSE LET D == Dispatch(S, step)
         IN IF D.raised # "" THEN D ELSE CountNode(D, step)

\* the stack compute starts from
RootStack ==
    [stack |-> <<TapeView(Str("root"), Str("root"))>>,
     messages_by_agent |-> <<>>, raised |-> ""]

-----------------------------------------------------------------------------
(* The stack object under a sequence of update calls *)

Cur == [stack |-> stack, messages_by_agent |-> messages_by_agent, raised |-> raised]

Feed(step) ==
    LET S == update(Cur, step)
    IN /\ stack' = S.stack
       /\ messages_by_agent' = S.messages_by_agent
       /\ raised' = S.raised
       /\ tape' = Append(tape, step)
       /\ hist' = Append(hist, S)
       /\ UNCHANGED cacheVars

\* the steps of the general specification: well-formed and malformed ones
Steps ==
    {Call(Str("root"), Str("B"), ""), Call(Path2("root", "B"), Str("C"), "p1"),
     Call(Path2("root", "B"), Str("B"), "p1"),
     Respond(Path2("root", "B"), ""), Respond(Str("root"), "p1"),
     AgentStep(Str("root"), "p1"), AgentStep(Str("root"), "p2"),
     AgentStep(Path2("root", "B"), "p1"),
     AgentStep(Path2("root", "B"), "p2"),
     AgentStep(EmptyStr, ""), AgentStep(Path2("A", "B"), "p1"),
     Broadcast(Path2("root", "B"), <<Str("C"), Str("C")>>, "p1"),
     Broadcast(Str("root"), <<Str("B"), Str("C")>>, ""),
     Jump(Path2("root", "B"), 2, "p1"), Jump(Str("root"), 0, "p2"),
     Observation, OtherStep}

StepsOf(cls) == {s \in Steps : s.cls = cls}

UpdateCall == Len(tape) < MaxSteps /\ \E s \in StepsOf("Call") : Feed(s)
UpdateBroadcast == Len(tape) < MaxSteps /\ \E s \in StepsOf("Broadcast") : Feed(s)
UpdateRespond == Len(tape) < MaxSteps /\ \E s \in StepsOf("Respond") : Feed(s)
UpdateJump == Len(tape) < MaxSteps /\ \E s \in StepsOf("Jump") : Feed(s)
UpdateAgentStep == Len(tape) < MaxSteps /\ \E s \in StepsOf("AgentStep") : Feed(s)
UpdateObservation == Len(tape) < MaxSteps /\ \E s \in StepsOf("Observation") : Feed(s)
UpdateUnsupported == Len(tape) < MaxSteps /\ \E s \in StepsOf("Step") : Feed(s)

Init ==
    /\ stack = RootStack.stack
    /\ messages_by_agent = RootStack.messages_by_agent
    /\ raised = ""
    /\ tape = <<>>
    /\ hist = <<RootStack>>
    /\ heap = <<>>
    /\ view_stack_cache = <<>>
    /\ allocated = 0
    /\ calls = <<>>

Next ==
    \/ UpdateCall
    \/ UpdateBroadcast
    \/ UpdateRespond
    \/ UpdateJump
    \/ UpdateAgentStep
    \/ UpdateObservation
    \/ UpdateUnsupported

Spec == Init /\ [][Next]_vars

-----------------------------------------------------------------------------
(* Nested calls: the steps an agent loop produces for a chain root -> B -> C, *)
(* every Call and Respond emitted by the agent that is active                 *)

Chain == <<Str("B"), Str("C")>>
NestedBys == {Str("root"), Path2("root", "B"), Path3("root", "B", "C")}

NestedCall ==
    /\ Len(tape) < MaxNestedSteps
    /\ Len(stack) <= Len(Chain)
    /\ Feed(Call(Top(stack).agent_full_name, Chain[Len(stack)], ""))

NestedRespond ==
    /\ Len(tape) < MaxNestedSteps
    /\ Len(stack) >= 2
    /\ Feed(Respond(Top(stack).agent_full_name, ""))

NestedStep ==
    /\ Len(tape) < MaxNestedSteps
    /\ \E by \in NestedBys : Feed(AgentStep(by, "p1"))

NextNested == NestedCall \/ NestedRespond \/ NestedStep

SpecNested == Init /\ [][NextNested]_vars

-----------------------------------------------------------------------------
(* Named roots: the steps of the chain root -> B -> C when the root agent's  *)
(* own name, the first segment of every by, is "root" or "A"                 *)

MaxNamedSteps == 5    \* steps fed to update in the named-root specification
RootNames == {"root", "A"}
\* the path of a frame as the agents write it: the root agent's name first
WithRoot(name, full_name) == Str(name) \o SubSeq(full_name, 2, Len(full_name))

NamedCall ==
    /\ Len(tape) < MaxNamedSteps
    /\ stack # <<>> /\ Len(stack) <= Len(Chain)
    /\ \E name \in RootNames :
          Feed(Call(WithRoot(name, Top(stack).agent_full_name), Chain[Len(stack)], "p1"))

NamedRespond ==
    /\ Len(tape) < MaxNamedSteps
    /\ Len(stack) >= 2
    /\ \E name \in RootNames :
          Feed(Respond(WithRoot(name, Top(stack).agent_full_name), "p2"))

NamedStep ==
    /\ Len(tape) < MaxNamedSteps
    /\ stack # <<>>
    /\ \E name \in RootNames, prompt_id \in {"p1", "p2"} :
          Feed(AgentStep(WithRoot(name, Top(stack).agent_full_name), prompt_id))

NextNamed == NamedCall \/ NamedRespond \/ NamedStep

SpecNamed == Init /\ [][NextNamed]_vars

-----------------------------------------------------------------------------
(* TapeViewStack.compute and _view_stack_cache *)

\* for step in tape.steps: stack.update(step); an exception ends the loop
RECURSIVE Fold(_, _)
Fold(S, steps) ==
    IF steps = <<>> \/ S.raised # "" THEN S
    ELSE Fold(update(S, Head(steps)), Tail(steps))

View(S) == [stack |-> S.stack, messages_by_agent |-> S.messages_by_agent]
NoView == [stack |-> <<>>, messages_by_agent |-> <<>>]

\* mutant: the cache is not consulted, every call folds the tape again
compute_always_fold(cache, tape_id, steps) ==
    LET S == Fold(RootStack, steps)
    IN IF S.raised # ""
       THEN [hit |-> FALSE, raised |-> S.raised, result |-> NoView, cache |-> cache]
       ELSE [hit |-> FALSE, raised |-> "", result |-> View(S),
             cache |-> [a \in DOMAIN cache \cup {tape_id} |->
                            IF a = tape_id THEN View(S) ELSE cache[a]]]

\* compute on the tape with id(tape) = tape_id and tape.steps = steps
compute(cache, tape_id, steps) ==
    IF tape_id \in DOMAIN cache
    THEN [hit |-> TRUE, raised |-> "", result |-> cache[tape_id], cache |-> cache]
    ELSE LET S == Fold(RootStack, steps)
         IN IF S.raised # ""
            THEN [hit |-> FALSE, raised |-> S.raised, result |-> NoView, cache |-> cache]
            ELSE [hit |-> FALSE, raised |-> "", result |-> View(S),
                  cache |-> cache @@ (tape_id :> View(S))]

\* the addresses a Tape object can be allocated at (its id)
Addrs == {"a1", "a2"}

\* the steps of the tapes of the cache specification
CacheSteps ==
    {AgentStep(Str("root"), "p1"), Respond(Path2("root", "B"), ""), OtherStep}

\* Tape(): a new object with no steps yet, at any address no live object occupies
NewTape ==
    /\ allocated < MaxTapes
    /\ \E addr \in Addrs \ DOMAIN heap, steps \in {<<>>} :
          heap' = heap @@ (addr :> [oid |-> allocated + 1, steps |-> steps])
    /\ allocated' = allocated + 1
    /\ UNCHANGED <<view_stack_cache, calls>>
    /\ UNCHANGED updVars

\* the last reference to a tape goes away; the cache holds none
DiscardTape ==
    /\ \E addr \in DOMAIN heap :
          heap' = [a \in DOMAIN heap \ {addr} |-> heap[a]]
    /\ UNCHANGED <<view_stack_cache, allocated, calls>>
    /\ UNCHANGED updVars

\* tape.steps.append(step): the tape is changed in place
AppendInPlace ==
    /\ \E addr \in DOMAIN heap, step \in CacheSteps :
          /\ Len(heap[addr].steps) < MaxTapeLen
          /\ heap' = [heap EXCEPT ![addr].steps = Append(@, step)]
    /\ UNCHANGED <<view_stack_cache, allocated, calls>>
    /\ UNCHANGED updVars

\* TapeViewStack.compute(tape) on a live tape
Compute ==
    /\ Len(calls) < MaxComputes
    /\ \E addr \in DOMAIN heap :
          LET r == compute(view_stack_cache, addr, heap[addr].steps)
          IN /\ view_stack_cache' = r.cache
             /\ calls' = Append(calls,
                    [oid |-> heap[addr].oid, addr |-> addr, steps |-> heap[addr].steps,
                     hit |-> r.hit, raised |-> r.raised, result |-> r.result])
    /\ UNCHANGED <<heap, allocated>>
    /\ UNCHANGED updVars

NextCache == NewTape \/ DiscardTape \/ AppendInPlace \/ Compute

SpecCache == Init /\ [][NextCache]_vars

-----------------------------------------------------------------------------
(* Reading the history of the stack object *)

N == Len(tape)
Before(i) == hist[i]          \* the object before step i
After(i) == hist[i + 1]       \* the object after step i
Ok(i) == After(i).raised = ""
NoError == \A i \in 1..N : Ok(i)
LastStep == tape[N]
LastOk == N > 0 /\ Ok(N)

CountCls(cls) == Cardinality({i \in 1..N : tape[i].cls = cls})

MsgList(m, key) == IF key \in DOMAIN m THEN m[key] ELSE <<>>
SeqSet(s) == {s[i] : i \in 1..Len(s)}
Occurrences(keys, key) == Cardinality({i \in 1..Len(keys) : keys[i] = key})

\* m1 is m0 with step appended once to the list of keys[i], for every i, and
\* nothing else changed
RoutedTo(m0, m1, step, keys) ==
    /\ DOMAIN m1 = DOMAIN m0 \cup SeqSet(keys)
    /\ \A key \in DOMAIN m1 :
          m1[key] = MsgList(m0, key) \o [i \in 1..Occurrences(keys, key) |-> step]

\* step is attributed to the agent of frame view (the test of
\* is_step_by_active_agent with view on top)
AttributedTo(view, step) == is_step_by_active_agent(<<view>>, step)

-----------------------------------------------------------------------------
(* C1: on a stack seeded with the root frame, after every prefix of steps    *)
(* processed without an error the number of frames is                        *)
(* 1 + (Calls in the prefix) - (Responds in the prefix) and is at least 1;   *)
(* a Broadcast, Jump, generic AgentStep or Observation leaves the number of  *)
(* frames as it was.                                                         *)
C1_Balance ==
    NoError =>
        /\ Len(stack) = 1 + CountCls("Call") - CountCls("Respond")
        /\ Len(stack) >= 1
        /\ (N > 0 /\ LastStep.cls \in {"Broadcast", "Jump", "AgentStep", "Observation"})
              => Len(stack) = Len(Before(N).stack)

C1_Witness ==
    /\ NoError
    /\ CountCls("Call") >= 1 /\ CountCls("Respond") >= 1
    /\ CountCls("Broadcast") + CountCls("Jump") >= 1
    /\ LastStep.cls = "Respond"

(* C2: in every state the stack object can reach under update, also the one  *)
(* a rejected update leaves behind, the stack holds at least one frame and   *)
(* frame 0 is the root frame.                                                *)
C2_RootFrameKept ==
    /\ Len(stack) >= 1
    /\ stack[1].agent_name = Str("root")
    /\ stack[1].agent_full_name = Str("root")

\* the frame a Respond pops at step i, and the frame beneath it before the pop
PoppedAt(i) == Top(Before(i).stack)
CallerAt(i) == Before(i).stack[Len(Before(i).stack) - 1]

\* the indices of the steps of frame P that may be the output handed to frame T
Eligible(P, T) ==
    {i \in 1..Len(P.steps) :
        P.steps[i].cls \notin {"Call", "Respond"} /\ ~AttributedTo(T, P.steps[i])}
MaxOf(set) == CHOOSE i \in set : \A j \in set : j <= i

(* C3: a Respond that pops frame P onto the new top T writes to              *)
(* T.outputs_by_subagent[P.agent_name] the last step of P.steps that is      *)
(* neither a Call nor a Respond and is not attributed to T's agent           *)
(* (Observations and Broadcasts are eligible); it writes no other entry, and *)
(* none at all when P holds no such step.                                    *)
C3_OutputIsLastEligible ==
    (LastOk /\ LastStep.cls = "Respond") =>
        LET P == PoppedAt(N)
            out0 == CallerAt(N).outputs_by_subagent
            out1 == Top(stack).outputs_by_subagent
            elig == Eligible(P, CallerAt(N))
        IN IF elig = {}
           THEN out1 = out0
           ELSE /\ DictKeys(out1) = DictKeys(out0) \cup {P.agent_name}
                /\ DictGet(out1, P.agent_name) = P.steps[MaxOf(elig)]
                /\ \A key \in DictKeys(out0) \ {P.agent_name} :
                      DictGet(out1, key) = DictGet(out0, key)
                /\ Len(out1) <= Len(out0) + 1

C3_Witness ==
    /\ LastOk /\ LastStep.cls = "Respond"
    /\ Eligible(PoppedAt(N), CallerAt(N)) # {}
    /\ MaxOf(Eligible(PoppedAt(N), CallerAt(N))) < Len(PoppedAt(N).steps)
    /\ DictGet(Top(stack).outputs_by_subagent, PoppedAt(N).agent_name).cls = "AgentStep"

\* steps k, k+1, k+2 are generic AgentSteps of the active agent of a fresh top
\* frame, with prompt ids p1, p1, p2
NodeOf(S) == Top(S.stack).next_node
ThreeSteps(k) ==
    /\ k >= 1 /\ k + 2 = N
    /\ k = 1 \/ (tape[k - 1].cls = "Call" /\ Ok(k - 1))
    /\ Top(Before(k).stack).last_prompt_id = ""
    /\ \A j \in k..(k + 2) :
          /\ tape[j].cls = "AgentStep" /\ Ok(j)
          /\ is_step_by_active_agent(Before(j).stack, tape[j])
    /\ tape[k].prompt_id # ""
    /\ tape[k + 1].prompt_id = tape[k].prompt_id
    /\ tape[k + 2].prompt_id # tape[k].prompt_id

(* C5 as claimed: over three AgentSteps of the active agent with prompt ids  *)
(* p1, p1, p2 on a fresh frame, next_node increases exactly once, at the     *)
(* third step; the first and the second leave it unchanged.                  *)
C5_Original ==
    \A k \in 1..N : ThreeSteps(k) =>
        /\ NodeOf(After(k)) = NodeOf(Before(k))
        /\ NodeOf(After(k + 1)) = NodeOf(After(k))
        /\ NodeOf(After(k + 2)) = NodeOf(After(k + 1)) + 1

(* C5 as amended: over three AgentSteps of the active agent with prompt ids  *)
(* p1, p1, p2 (p1 not empty, p2 # p1) on a fresh frame, next_node increases  *)
(* exactly twice, by one each time: at the first step, whose prompt id       *)
(* differs from the empty last_prompt_id, and at the third; the second step  *)
(* leaves it unchanged.                                                      *)
C5_NodeCounting ==
    \A k \in 1..N : ThreeSteps(k) =>
        /\ NodeOf(After(k)) = NodeOf(Before(k)) + 1
        /\ NodeOf(After(k + 1)) = NodeOf(After(k))
        /\ NodeOf(After(k + 2)) = NodeOf(After(k + 1)) + 1

C5_Witness == \E k \in 1..N : ThreeSteps(k) /\ k > 1 /\ NodeOf(After(k + 2)) = 2

\* the keys a Broadcast routes to, one per element of step.to
BroadcastKeys(step) == [i \in 1..Len(step.to) |-> step.by \o Slash \o step.to[i]]

(* C6: a Broadcast leaves the number of frames and the frame on top as they  *)
(* were, appends the step to the top frame's steps and, once per element of  *)
(* to, to messages_by_agent[step.by + "/" + name]; no other list changes     *)
(* (the broadcaster's own list does not get the step) and no frame below the *)
(* top is modified.                                                          *)
C6_BroadcastEffect ==
    (LastOk /\ LastStep.cls = "Broadcast") =>
        LET S0 == Before(N)
            n0 == Len(S0.stack)
        IN /\ Len(stack) = n0
           /\ \A i \in 1..(n0 - 1) : stack[i] = S0.stack[i]
           /\ Top(stack).agent_name = Top(S0.stack).agent_name
           /\ Top(stack).agent_full_name = Top(S0.stack).agent_full_name
           /\ Top(stack).steps = Append(Top(S0.stack).steps, LastStep)
           /\ RoutedTo(S0.messages_by_agent, messages_by_agent, LastStep,
                       BroadcastKeys(LastStep))
           /\ MsgList(messages_by_agent, LastStep.by)
                 = MsgList(S0.messages_by_agent, LastStep.by)

C6_Witness ==
    /\ LastOk /\ LastStep.cls = "Broadcast"
    /\ Len(stack) = 2
    /\ Len(LastStep.to) = 2 /\ LastStep.to[1] = LastStep.to[2]
    /\ Len(messages_by_agent[LastStep.by \o Slash \o LastStep.to[1]]) >= 2

\* "/".join(segments)
RECURSIVE Join(_)
Join(segments) ==
    IF segments = <<>> THEN <<>>
    ELSE IF Len(segments) = 1 THEN segments[1]
    ELSE segments[1] \o Slash \o Join(Tail(segments))

\* the path s without its last segment (the empty string for a single segment)
WithoutLastSegment(s) == Join(SubSeq(split(s), 1, Len(split(s)) - 1))

\* the Call at step i pushed the frame that the Respond at step N pops
Matching(i) ==
    /\ 1 <= i /\ i < N
    /\ tape[i].cls = "Call" /\ Ok(i)
    /\ LastOk /\ LastStep.cls = "Respond"
    /\ Len(Before(N).stack) = Len(After(i).stack)
    /\ \A j \in (i + 1)..(N - 1) : Len(After(j).stack) >= Len(After(i).stack)
    /\ LastStep.by = tape[i].by \o Slash \o tape[i].agent_name

InOrder(list, a, b) ==
    \E i, j \in 1..Len(list) : i < j /\ list[i] = a /\ list[j] = b

C7_CallRouting ==
    (LastOk /\ LastStep.cls = "Call") =>
        RoutedTo(Before(N).messages_by_agent, messages_by_agent, LastStep,
                 <<LastStep.by, LastStep.by \o Slash \o LastStep.agent_name>>)

C7_CallThenRespond ==
    \A i \in 1..N : Matching(i) =>
        LET P == tape[i].by
            B == tape[i].agent_name
            elig == Eligible(PoppedAt(N), CallerAt(N))
        IN /\ InOrder(MsgList(messages_by_agent, P), tape[i], LastStep)
           /\ InOrder(MsgList(messages_by_agent, P \o Slash \o B), tape[i], LastStep)
           /\ Len(stack) = Len(Before(i).stack)
           /\ elig # {} =>
                 DictGet(Top(stack).outputs_by_subagent, B)
                    = PoppedAt(N).steps[MaxOf(elig)]

(* C7 as claimed: a Call by P to B is appended to exactly                    *)
(* messages_by_agent[P] and [P/B]; a Respond by Q to exactly                 *)
(* messages_by_agent[Q] and messages_by_agent[Q without its last segment];   *)
(* after a Call and its matching Respond both lists hold the Call before the *)
(* Respond, the depth is restored and the caller's outputs_by_subagent[B] is *)
(* the callee's last eligible step.                                          *)
C7_Original ==
    /\ C7_CallRouting
    /\ (LastOk /\ LastStep.cls = "Respond") =>
          RoutedTo(Before(N).messages_by_agent, messages_by_agent, LastStep,
                   <<LastStep.by, WithoutLastSegment(LastStep.by)>>)
    /\ C7_CallThenRespond

(* C7 as amended: as claimed, except that the second list a Respond by Q is  *)
(* appended to is messages_by_agent[Q without its last segment] only when Q  *)
(* has more than one segment; for a Q of a single segment it is              *)
(* messages_by_agent[Q] again, which then receives the step twice.           *)
C7_Routing ==
    /\ C7_CallRouting
    /\ (LastOk /\ LastStep.cls = "Respond") =>
          RoutedTo(Before(N).messages_by_agent, messages_by_agent, LastStep,
                   <<LastStep.by,
                     IF HasSlash(LastStep.by)
                     THEN WithoutLastSegment(LastStep.by) ELSE LastStep.by>>)
    /\ C7_CallThenRespond

C7_Witness ==
    /\ \E i \in 1..N : Matching(i) /\ i + 1 < N
    /\ Eligible(PoppedAt(N), CallerAt(N)) # {}

\* the steps of the popped frame P are an input step of the caller T, a result
\* step of the callee, and what one nested Call ... Respond recorded in P
NestedShape(P, T) ==
    /\ Len(P.steps) \in {4, 5}
    /\ P.steps[1].cls = "AgentStep" /\ AttributedTo(T, P.steps[1])
    /\ P.steps[2].cls = "AgentStep" /\ AttributedTo(P, P.steps[2])
    /\ ~AttributedTo(T, P.steps[2])
    /\ P.steps[3].cls = "Call"
    /\ P.steps[Len(P.steps)].cls = "Respond"
    /\ Len(P.steps) = 5 => P.steps[4].cls \notin {"Call", "Respond"}

PoppedNested == LastOk /\ LastStep.cls = "Respond" /\ NestedShape(PoppedAt(N), CallerAt(N))
StoredOutput == DictGet(Top(stack).outputs_by_subagent, PoppedAt(N).agent_name)

\* a step attributed to the caller is never the output a Respond selects
CallerStepNotSelected ==
    (LastOk /\ LastStep.cls = "Respond" /\ Eligible(PoppedAt(N), CallerAt(N)) # {})
        => ~AttributedTo(CallerAt(N), StoredOutput)

(* C4 as claimed: when the popped frame's steps are an input step of the     *)
(* caller, a result step X of the callee and the steps a nested              *)
(* Call ... Respond recorded in the frame, whatever they are, the output     *)
(* stored for the popped agent is X; a step attributed to the caller is      *)
(* never selected.                                                           *)
C4_Original ==
    /\ PoppedNested => StoredOutput = PoppedAt(N).steps[2]
    /\ CallerStepNotSelected

(* C4 as amended: with those steps in the popped frame, the stored output is *)
(* X only when the nested Call ... Respond recorded no output step between   *)
(* them or recorded one that is attributed to the caller; when it recorded   *)
(* an output step Y not attributed to the caller, the stored output is Y.    *)
(* A step attributed to the caller is never selected.                        *)
C4_OutputSelection ==
    /\ PoppedNested =>
          LET P == PoppedAt(N)
          IN StoredOutput =
                IF Len(P.steps) = 5 /\ ~AttributedTo(CallerAt(N), P.steps[4])
                THEN P.steps[4] ELSE P.steps[2]
    /\ CallerStepNotSelected

C4_Witness ==
    /\ PoppedNested
    /\ Len(PoppedAt(N).steps) = 5
    /\ StoredOutput = PoppedAt(N).steps[4]
    /\ StoredOutput # PoppedAt(N).steps[2]

-----------------------------------------------------------------------------
(* Reading the log of compute calls *)

NC == Len(calls)
Returned(i) == calls[i].raised = ""
\* what a fold over steps yields
FoldView(steps) == View(Fold(RootStack, steps))

(* C8: compute on two distinct tape objects whose step sequences are         *)
(* identical returns equal stacks (frames and messages_by_agent), whatever   *)
(* compute calls were made before and whatever the cache holds.              *)
C8_Determinism ==
    \A i, j \in 1..NC :
        (/\ i < j
         /\ Returned(i) /\ Returned(j)
         /\ calls[i].oid # calls[j].oid
         /\ calls[i].steps = calls[j].steps)
        => calls[i].result = calls[j].result

(* C9: a compute call returns a cached stack only if that stack was computed *)
(* from the very same tape object, and the first compute on a tape object    *)
(* folds its steps afresh, also after compute calls on tape objects that     *)
(* have been discarded since.                                                *)
C9_HitOnlyOnSameTape ==
    \A j \in 1..NC :
        /\ calls[j].hit =>
              \E i \in 1..(j - 1) :
                  /\ ~calls[i].hit /\ Returned(i)
                  /\ calls[i].addr = calls[j].addr
                  /\ calls[i].oid = calls[j].oid
        /\ (\A i \in 1..(j - 1) : calls[i].oid # calls[j].oid) => ~calls[j].hit

(* C10: once compute on a tape object has succeeded, every later compute on  *)
(* that object returns that first call's stack without folding and without   *)
(* an error, and when the tape's steps were changed in place in between, the *)
(* returned stack is the one of the steps the tape had at the first call.    *)
C10_StaleStack ==
    \A i, j \in 1..NC :
        (/\ i < j
         /\ calls[i].oid = calls[j].oid
         /\ Returned(i)
         /\ \A k \in 1..(i - 1) : calls[k].oid # calls[i].oid)
        => /\ calls[j].hit /\ Returned(j)
           /\ calls[j].result = calls[i].result
           /\ calls[j].steps # calls[i].steps
                 => calls[j].result = FoldView(calls[i].steps)

\* the part of C10 that does not depend on what the first call returned
C10_SameStackReturned ==
    \A i, j \in 1..NC :
        (i < j /\ calls[i].oid = calls[j].oid /\ Returned(i))
        => calls[j].hit /\ Returned(j) /\ calls[j].result = calls[i].result

-----------------------------------------------------------------------------
\* the fold over steps stops with an error at step i and not before
AbortsAt(steps, i) ==
    /\ Fold(RootStack, SubSeq(steps, 1, i - 1)).raised = ""
    /\ Fold(RootStack, SubSeq(steps, 1, i)).raised # ""

\* update on a step of an unsupported kind
C11_UpdateRejects ==
    (N > 0 /\ LastStep.cls = "Step") =>
        /\ After(N).raised = "ValueError"
        /\ After(N).stack = Before(N).stack
        /\ After(N).messages_by_agent = Before(N).messages_by_agent

\* compute on a tape whose first failing step is of an unsupported kind
C11_ComputeAborts ==
    \A j \in 1..NC : \A i \in 1..Len(calls[j].steps) :
        (calls[j].steps[i].cls = "Step" /\ AbortsAt(calls[j].steps, i)) =>
            /\ calls[j].raised = "ValueError"
            /\ calls[j].result = NoView
            /\ j = NC => calls[j].addr \notin DOMAIN view_stack_cache

(* C11: a step whose kind is none of Call, Broadcast, Respond, Jump,         *)
(* AgentStep or Observation makes update fail with an unsupported-step error *)
(* before any change (frames, their steps, next_node, last_prompt_id,        *)
(* outputs_by_subagent and messages_by_agent are as before the step); inside *)
(* compute the fold aborts at that step, no stack is returned and no cache   *)
(* entry is written for the tape.                                            *)
C11_UnsupportedStep == C11_UpdateRejects /\ C11_ComputeAborts

\* the part of C11 that holds: an update on a stack that still has its frames,
\* and a compute call that folds the tape
C11_RejectedWhenFolded ==
    /\ (N > 0 /\ LastStep.cls = "Step" /\ Before(N).stack # <<>>) => C11_UpdateRejects
    /\ \A j \in 1..NC : \A i \in 1..Len(calls[j].steps) :
          (/\ ~calls[j].hit
           /\ calls[j].steps[i].cls = "Step"
           /\ AbortsAt(calls[j].steps, i)) =>
              /\ calls[j].raised = "ValueError"
              /\ calls[j].result = NoView

-----------------------------------------------------------------------------
CountIn(steps, k, cls) == Cardinality({i \in 1..k : steps[i].cls = cls})
\* the prefix of length i is the first with more Responds than Calls
Unbalanced(steps, i) ==
    /\ i \in 1..Len(steps)
    /\ CountIn(steps, i, "Respond") > CountIn(steps, i, "Call")
    /\ \A k \in 1..(i - 1) : CountIn(steps, k, "Respond") <= CountIn(steps, k, "Call")

\* the Respond that unbalances the steps fed so far is rejected by update and
\* routed nowhere
C12_RespondRejected ==
    (Unbalanced(tape, N) /\ \A k \in 1..(N - 1) : Ok(k)) =>
        /\ After(N).raised = "IndexError"
        /\ After(N).messages_by_agent = Before(N).messages_by_agent

\* compute call j is on a tape that the Respond at index i unbalances
UnbalancedCall(j, i) ==
    /\ Unbalanced(calls[j].steps, i)
    /\ Fold(RootStack, SubSeq(calls[j].steps, 1, i - 1)).raised = ""

C12_ComputeAborts ==
    \A j \in 1..NC : \A i \in 1..Len(calls[j].steps) :
        UnbalancedCall(j, i) =>
            /\ calls[j].raised = "IndexError"
            /\ calls[j].result = NoView
            /\ j = NC => calls[j].addr \notin DOMAIN view_stack_cache

(* C12: compute on any tape that has a prefix containing more Respond steps  *)
(* than Call steps aborts with an error at the first such Respond: it        *)
(* returns no stack, appends that Respond to no list of messages_by_agent,   *)
(* and writes no cache entry for the tape, so a later compute on the same    *)
(* tape object fails again at the same step.                                 *)
C12_UnbalancedRespond == C12_RespondRejected /\ C12_ComputeAborts

\* the part of C12 that holds: a compute call that folds the tape
C12_AbortsWhenFolded ==
    /\ C12_RespondRejected
    /\ \A j \in 1..NC : \A i \in 1..Len(calls[j].steps) :
          (~calls[j].hit /\ UnbalancedCall(j, i)) =>
              /\ calls[j].raised = "IndexError"
              /\ calls[j].result = NoView
              /\ j = NC => calls[j].addr \notin DOMAIN view_stack_cache
              /\ \A k \in (j + 1)..NC :
                    calls[k].oid = calls[j].oid =>
                        ~calls[k].hit /\ calls[k].raised = "IndexError"

-----------------------------------------------------------------------------
MaxRef == 3   \* largest index passed to get_output
RefNames == {Str("B"), Str("C"), Str("D")}

RECURSIVE Ascending(_)
Ascending(set) ==
    IF set = {} THEN <<>>
    ELSE LET m == CHOOSE i \in set : \A j \in set : i <= j
         IN <<m>> \o Ascending(set \ {m})

\* the step that pushed the frame now at depth d (0 for the root frame)
PushedAt(d) ==
    IF d = 1 THEN 0
    ELSE MaxOf({c \in 1..N : tape[c].cls = "Call" /\ Ok(c) /\ Len(After(c).stack) = d})
\* the Responds that returned into the frame now at depth d and recorded an
\* output in it, in the order they were applied
ExitsInto(d) ==
    Ascending({i \in (PushedAt(d) + 1)..N :
        /\ tape[i].cls = "Respond" /\ Ok(i)
        /\ Len(After(i).stack) = d
        /\ Eligible(PoppedAt(i), CallerAt(i)) # {}})
\* what the exit at step i recorded, and for which subagent
RecordedAt(i) == DictGet(Top(After(i).stack).outputs_by_subagent, PoppedAt(i).agent_name)
ExitsOf(d, name) == {k \in 1..Len(ExitsInto(d)) : PoppedAt(ExitsInto(d)[k]).agent_name = name}

\* get_output with an index out of range or an unknown name
C13_LookupError ==
    \A d \in 1..Len(stack) :
        /\ \A i \in (-1)..MaxRef :
              (i >= Len(stack[d].outputs_by_subagent) \/ i < -Len(stack[d].outputs_by_subagent))
                  => /\ get_output(stack[d], IntRef(i)).raised = "IndexError"
                     /\ get_output(stack[d], IntRef(i)).view = stack[d]
        /\ \A name \in RefNames :
              ExitsOf(d, name) = {}
                  => /\ get_output(stack[d], NameRef(name)).raised = "KeyError"
                     /\ get_output(stack[d], NameRef(name)).view = stack[d]

(* C13: for every frame, the order of the entries of outputs_by_subagent is  *)
(* the order in which the subagents exited (the order of the Responds that   *)
(* wrote them): get_output(i) returns the output recorded by the i-th exit   *)
(* and get_output(name) the output recorded by the latest exit of the        *)
(* subagent called name, also when the same name is called more than once    *)
(* from the frame; an index out of range or an unknown name fails with a     *)
(* lookup error and changes nothing.                                         *)
C13_ExitOrder ==
    /\ \A d \in 1..Len(stack) :
          LET exits == ExitsInto(d)
          IN /\ \A k \in 1..Len(exits) :
                   k - 1 <= MaxRef =>
                      /\ get_output(stack[d], IntRef(k - 1)).raised = ""
                      /\ get_output(stack[d], IntRef(k - 1)).value = RecordedAt(exits[k])
             /\ \A name \in RefNames :
                   ExitsOf(d, name) # {} =>
                      /\ get_output(stack[d], NameRef(name)).raised = ""
                      /\ get_output(stack[d], NameRef(name)).value =
                            RecordedAt(exits[MaxOf(ExitsOf(d, name))])
    /\ C13_LookupError

\* the part of C13 that holds: one entry for each subagent name, in the order
\* of the first exits of the names, holding the output of the name's latest exit
C13_FirstExitOrder ==
    /\ \A d \in 1..Len(stack) :
          LET exits == ExitsInto(d)
              out == stack[d].outputs_by_subagent
              firsts == Ascending({k \in 1..Len(exits) :
                            \A j \in 1..(k - 1) :
                                PoppedAt(exits[j]).agent_name # PoppedAt(exits[k]).agent_name})
          IN /\ Len(out) = Len(firsts)
             /\ \A k \in 1..Len(firsts) :
                   LET name == PoppedAt(exits[firsts[k]]).agent_name
                   IN /\ out[k].key = name
                      /\ k - 1 <= MaxRef =>
                            get_output(stack[d], IntRef(k - 1)).value =
                                RecordedAt(exits[MaxOf(ExitsOf(d, name))])
                      /\ get_output(stack[d], NameRef(name)).value =
                            RecordedAt(exits[MaxOf(ExitsOf(d, name))])
    /\ C13_LookupError

-----------------------------------------------------------------------------
\* the frames that are on the stack before and after the last step
Kept == 1..(IF Len(Before(N).stack) < Len(stack) THEN Len(Before(N).stack) ELSE Len(stack))
\* the last step counts as a new prompt round of frame f
NewRound(f) ==
    /\ LastStep.cls # "Jump"
    /\ AttributedTo(f, LastStep)
    /\ LastStep.prompt_id # f.last_prompt_id

(* C14 as claimed: in every update a frame's next_node becomes larger only   *)
(* if the step is not a Jump, is attributed to the frame's active agent and  *)
(* carries a prompt_id different from the frame's last_prompt_id; the only   *)
(* other way next_node changes is a Jump setting it directly.                *)
C14_Original ==
    N > 0 =>
        \A d \in Kept :
            stack[d].next_node # Before(N).stack[d].next_node =>
                \/ /\ stack[d].next_node > Before(N).stack[d].next_node
                   /\ NewRound(Before(N).stack[d])
                \/ /\ LastStep.cls = "Jump"
                   /\ stack[d].next_node = LastStep.next_node

\* next_node of the frame at depth d after the last step, as amended
NodeAfter(d) ==
    LET f == Before(N).stack[d]
        round == IF NewRound(f) THEN 1 ELSE 0
    IN IF ~Ok(N) \/ d # Len(stack) THEN f.next_node
       ELSE IF LastStep.cls = "Jump" THEN LastStep.next_node
       ELSE IF LastStep.cls = "Respond" THEN f.next_node + 1 + round
       ELSE f.next_node + round

(* C14 as amended: an update changes next_node of no frame but the one on    *)
(* top after the step, and of that frame in three ways only: plus 1 when the *)
(* step is not a Jump, is attributed to the frame's active agent and carries *)
(* a prompt_id different from the frame's last_prompt_id; plus 1 when the    *)
(* step is a Respond that returns to the frame, whoever it is attributed to  *)
(* and whatever its prompt_id (plus 2 when the first condition holds too);   *)
(* set to step.next_node by a Jump.                                          *)
C14_NodeChanges ==
    N > 0 => \A d \in Kept : stack[d].next_node = NodeAfter(d)

C14_Witness ==
    /\ LastOk /\ LastStep.cls = "Respond"
    /\ ~NewRound(CallerAt(N))
    /\ CallerAt(N).next_node >= 1
    /\ Top(stack).next_node = CallerAt(N).next_node + 1

-----------------------------------------------------------------------------
\* the Call at step i pushed the frame that the Respond at step N pops
PushedFor(i) ==
    /\ 1 <= i /\ i < N
    /\ tape[i].cls = "Call" /\ Ok(i)
    /\ LastOk /\ LastStep.cls = "Respond"
    /\ Len(Before(N).stack) = Len(After(i).stack)
    /\ \A j \in (i + 1)..(N - 1) : Len(After(j).stack) >= Len(After(i).stack)

(* C15: for any Call applied while frame F is on top and the Respond that    *)
(* pops the frame pushed by that Call, F's next_node right after the Respond *)
(* is F's next_node right before the Call plus exactly 1, whatever the       *)
(* prompt ids of the Call and of the Respond and whatever steps are applied  *)
(* in between.                                                               *)
C15_OneTurn ==
    \A i \in 1..N :
        PushedFor(i) => Top(stack).next_node = Top(Before(i).stack).next_node + 1

\* the part of C15 that holds: a Respond that is not attributed to the caller
C15_OneTurnOfCallee ==
    \A i \in 1..N :
        (PushedFor(i) /\ ~AttributedTo(CallerAt(N), LastStep))
            => Top(stack).next_node = Top(Before(i).stack).next_node + 1

-----------------------------------------------------------------------------
(* C16: a Jump sets the top frame's next_node to exactly step.next_node,     *)
(* with no additional increment even when its prompt_id differs from the     *)
(* frame's last_prompt_id and even when the new value is smaller than the    *)
(* old one; it pushes and pops no frame, is appended to no frame's steps or  *)
(* steps_by_kind, and changes no list of messages_by_agent.                  *)
C16_JumpEffect ==
    (LastOk /\ LastStep.cls = "Jump") =>
        /\ Top(stack).next_node = LastStep.next_node
        /\ Len(stack) = Len(Before(N).stack)
        /\ \A d \in 1..Len(stack) :
              /\ stack[d].steps = Before(N).stack[d].steps
              /\ stack[d].steps_by_kind = Before(N).stack[d].steps_by_kind
              /\ d < Len(stack) => stack[d] = Before(N).stack[d]
        /\ messages_by_agent = Before(N).messages_by_agent

C16_Witness ==
    /\ LastOk /\ LastStep.cls = "Jump"
    /\ AttributedTo(Top(Before(N).stack), LastStep)
    /\ LastStep.prompt_id # Top(Before(N).stack).last_prompt_id
    /\ LastStep.next_node < Top(Before(N).stack).next_node
    /\ Top(Before(N).stack).steps # <<>>

-----------------------------------------------------------------------------
\* steps k, k+1, k+2 are generic AgentSteps of the active agent with prompt
\* ids a, b, a, where a differs from b and from the frame's last_prompt_id
Alternating(k) ==
    /\ k >= 1 /\ k + 2 = N
    /\ \A j \in k..(k + 2) :
          /\ tape[j].cls = "AgentStep" /\ Ok(j)
          /\ is_step_by_active_agent(Before(j).stack, tape[j])
    /\ tape[k].prompt_id # Top(Before(k).stack).last_prompt_id
    /\ tape[k + 1].prompt_id # tape[k].prompt_id
    /\ tape[k + 2].prompt_id = tape[k].prompt_id

(* C17: a generic AgentStep or an Observation applied with top frame T is    *)
(* appended to T.steps; T.next_node increases by exactly 1 if the step is an *)
(* AgentStep attributed to T's active agent whose prompt_id differs from     *)
(* T.last_prompt_id, and by 0 otherwise; T.last_prompt_id becomes the step's *)
(* prompt_id exactly when the step is attributed to the active agent and is  *)
(* unchanged otherwise; prompt ids p1, p2, p1 advance the node three times.  *)
C17_GenericStep ==
    /\ (LastOk /\ LastStep.cls \in {"AgentStep", "Observation"}) =>
          LET T == Top(Before(N).stack)
              T1 == Top(stack)
              attributed == LastStep.cls = "AgentStep" /\ AttributedTo(T, LastStep)
          IN /\ T1.steps = Append(T.steps, LastStep)
             /\ T1.next_node =
                   IF attributed /\ LastStep.prompt_id # T.last_prompt_id
                   THEN T.next_node + 1
                   ELSE T.next_node
             /\ T1.last_prompt_id =
                   IF attributed THEN LastStep.prompt_id ELSE T.last_prompt_id
    /\ \A k \in 1..N :
          Alternating(k) => NodeOf(After(k + 2)) = NodeOf(Before(k)) + 3

C17_Witness ==
    /\ \E k \in 1..N : Alternating(k)
    /\ Top(stack).next_node >= 3
    /\ Top(stack).last_prompt_id = "p1"

-----------------------------------------------------------------------------
\* the slash-separated segments of s, cut at the positions of its slashes
Segments(s) ==
    LET cuts == <<0>> \o Ascending({i \in 1..Len(s) : s[i] = "/"}) \o <<Len(s) + 1>>
    IN [k \in 1..(Len(cuts) - 1) |-> SubSeq(s, cuts[k] + 1, cuts[k + 1] - 1)]
AfterFirst(segments) == SubSeq(segments, 2, Len(segments))

\* the steps is_step_by_active_agent is probed with, on every reachable stack
Probes ==
    {AgentStep(Str("root"), "p1"), AgentStep(EmptyStr, ""), AgentStep(Str("A"), "p1"),
     AgentStep(Path2("root", "B"), "p1"), AgentStep(Path2("A", "B"), "p1"),
     AgentStep(Path2("root", "C"), "p1"), AgentStep(Path3("root", "B", "C"), "p1"),
     AgentStep(Str("root") \o Slash, "p1"),
     Call(Str("B"), Str("B"), ""), Respond(EmptyStr, "p1"), Jump(Str("A"), 1, ""),
     Broadcast(Path2("A", "B"), <<Str("C")>>, ""),
     Observation, OtherStep}

(* C18: is_step_by_active_agent(step) is true iff step is an AgentStep       *)
(* variant and the slash-separated segments of step.by after the first one   *)
(* are the segments of the top frame's agent_full_name after the first one;  *)
(* the first segment of step.by is never compared, so at the root frame      *)
(* every AgentStep whose by has a single segment (any name, or the empty     *)
(* string) counts as a step of the active agent; an Observation never does.  *)
C18_ActiveAgentTest ==
    stack # <<>> =>
        LET frame == AfterFirst(Segments(Top(stack).agent_full_name))
        IN /\ \A step \in Probes :
                 is_step_by_active_agent(stack, step) <=>
                     /\ step.cls \in {"Call", "Respond", "Broadcast", "Jump", "AgentStep"}
                     /\ AfterFirst(Segments(step.by)) = frame
           /\ Top(stack).agent_full_name = Str("root") =>
                 \A step \in Probes :
                     (/\ step.cls \in {"Call", "Respond", "Broadcast", "Jump", "AgentStep"}
                      /\ \A i \in 1..Len(step.by) : step.by[i] # "/")
                         => is_step_by_active_agent(stack, step)
           /\ ~is_step_by_active_agent(stack, Observation)

\* a step by A/B was counted as a step of the active agent of frame root/B
C18_Witness ==
    /\ LastOk /\ LastStep = AgentStep(Path2("A", "B"), "p1")
    /\ Top(Before(N).stack).agent_full_name = Path2("root", "B")
    /\ Top(Before(N).stack).last_prompt_id = ""
    /\ Top(stack).last_prompt_id = "p1"
    /\ Top(stack).next_node = Top(Before(N).stack).next_node + 1

-----------------------------------------------------------------------------
\* every frame above the root is named after the frame beneath it and after
\* the Call that pushed it
C19_FullNames ==
    \A d \in 2..Len(stack) :
        /\ stack[d].agent_full_name =
              stack[d - 1].agent_full_name \o Slash \o stack[d].agent_name
        /\ stack[d].agent_name = tape[PushedAt(d)].agent_name

\* the last step renamed no frame that it left on the stack
C19_NamesKept ==
    N > 0 =>
        \A d \in Kept :
            /\ stack[d].agent_name = Before(N).stack[d].agent_name
            /\ stack[d].agent_full_name = Before(N).stack[d].agent_full_name

(* C19: in every reachable state, for every frame at index i > 0,            *)
(* agent_full_name is the agent_full_name of frame i-1 followed by "/" and   *)
(* the frame's own agent_name, the agent_name of the Call that pushed it; a  *)
(* frame's agent_name and agent_full_name never change while it is on the    *)
(* stack; the frame pushed by a Call starts with empty steps, next_node 0,   *)
(* empty last_prompt_id and empty outputs_by_subagent.                       *)
C19_PushedFrame ==
    /\ C19_FullNames
    /\ C19_NamesKept
    /\ (LastOk /\ LastStep.cls = "Call") =>
          /\ Top(stack).steps = <<>>
          /\ Top(stack).next_node = 0
          /\ Top(stack).last_prompt_id = ""
          /\ Top(stack).outputs_by_subagent = <<>>

\* the part of C19 that holds: the names, and the frame pushed by a Call that
\* is not attributed to the agent it calls
C19_PushedByCaller ==
    /\ C19_FullNames
    /\ C19_NamesKept
    /\ (LastOk /\ LastStep.cls = "Call") =>
          /\ Top(stack).steps = <<>>
          /\ Top(stack).steps_by_kind = <<>>
          /\ Top(stack).outputs_by_subagent = <<>>
          /\ ~AttributedTo(Top(stack), LastStep) =>
                Top(stack).next_node = 0 /\ Top(stack).last_prompt_id = ""

-----------------------------------------------------------------------------
\* the output the Respond at step N hands to the caller, as a list of 0 or 1 steps
SelectedOutput ==
    LET elig == Eligible(PoppedAt(N), CallerAt(N))
    IN IF elig = {} THEN <<>> ELSE <<PoppedAt(N).steps[MaxOf(elig)]>>

(* C20: a Call is appended to the caller frame's steps before the callee     *)
(* frame is pushed; on the matching Respond the caller frame's steps gain,   *)
(* in this order, the selected output step of the popped frame (when one     *)
(* exists) and the Respond itself; so in the caller frame's steps the Call   *)
(* precedes the subagent's output, which immediately precedes the Respond,   *)
(* and the Respond is never recorded in the popped frame.                    *)
C20_CallerSteps ==
    /\ (LastOk /\ LastStep.cls = "Call") =>
          /\ stack[Len(stack) - 1].steps = Append(Top(Before(N).stack).steps, LastStep)
          /\ Top(stack).steps = <<>>
    /\ (LastOk /\ LastStep.cls = "Respond") =>
          /\ Top(stack).steps = CallerAt(N).steps \o SelectedOutput \o <<LastStep>>
          /\ Len(stack) = Len(Before(N).stack) - 1
          /\ \A d \in 1..(Len(stack) - 1) : stack[d] = Before(N).stack[d]
    /\ \A i \in 1..N :
          PushedFor(i) =>
              LET steps == Top(stack).steps
                  at == Len(Top(Before(i).stack).steps) + 1
              IN /\ steps[at] = tape[i]
                 /\ SubSeq(steps, at + 1, Len(steps)) = SelectedOutput \o <<LastStep>>
                 /\ SubSeq(steps, 1, at - 1) = Top(Before(i).stack).steps

C20_Witness ==
    /\ \E i \in 1..N : PushedFor(i) /\ Top(Before(i).stack).steps # <<>>
    /\ SelectedOutput # <<>>
    /\ Len(PoppedAt(N).steps) >= 1
    /\ Top(stack).steps[Len(Top(stack).steps) - 1] = SelectedOutput[1]

-----------------------------------------------------------------------------
\* the keys of messages_by_agent whose lists the last step changed
KeysChanged ==
    {key \in DOMAIN messages_by_agent :
        MsgList(Before(N).messages_by_agent, key) # messages_by_agent[key]}

-----------------------------------------------------------------------------
\* the Respond at step N pops a frame that holds no eligible step
NoOutput == LastOk /\ LastStep.cls = "Respond" /\ SelectedOutput = <<>>

\* what the claim says of such a Respond, but for the node of the new top
C22_NothingRecorded ==
    NoOutput =>
        /\ Len(stack) = Len(Before(N).stack) - 1
        /\ Top(stack).steps = Append(CallerAt(N).steps, LastStep)
        /\ RoutedTo(Before(N).messages_by_agent, messages_by_agent, LastStep,
                    <<LastStep.by, rsplit_head(LastStep.by)>>)
        /\ Top(stack).outputs_by_subagent = CallerAt(N).outputs_by_subagent
        /\ LET ref == NameRef(PoppedAt(N).agent_name)
           IN get_output(Top(stack), ref) = [get_output(CallerAt(N), ref) EXCEPT !.view = Top(stack)]

(* C22: a Respond that pops a frame holding no eligible step still pops the  *)
(* frame, still increments the new top's next_node by 1 and still appends    *)
(* the Respond to the new top's steps and to the two message lists, but      *)
(* leaves the new top's outputs_by_subagent unchanged: no entry is created,  *)
(* and an entry written by an earlier invocation of a subagent of the same   *)
(* name remains and is what get_output returns.                              *)
C22_RespondWithoutOutput ==
    /\ C22_NothingRecorded
    /\ NoOutput => Top(stack).next_node = CallerAt(N).next_node + 1

\* the part of C22 that holds: the node advances by 1 when the Respond is not
\* attributed to the caller, by 1 or 2 when it is
C22_WithoutOutputOfCallee ==
    /\ C22_NothingRecorded
    /\ NoOutput => Top(stack).next_node = NodeAfter(Len(stack))
    /\ (NoOutput /\ ~AttributedTo(CallerAt(N), LastStep))
          => Top(stack).next_node = CallerAt(N).next_node + 1

\* a second exit of B without output leaves the entry of B's first exit
C22_EarlierEntryKept ==
    /\ NoOutput
    /\ PoppedAt(N).agent_name \in DictKeys(CallerAt(N).outputs_by_subagent)
    /\ get_output(Top(stack), NameRef(PoppedAt(N).agent_name)).raised = ""

-----------------------------------------------------------------------------
\* the depth beneath which the last step may change no frame: the old top,
\* or the frame directly beneath it for a Respond
Untouched == IF LastStep.cls = "Respond" THEN Len(Before(N).stack) - 2
             ELSE Len(Before(N).stack) - 1

(* C23: every update changes at most the frame on top of the stack, with two *)
(* exceptions that touch exactly one more frame: a Call appends the step to  *)
(* the old top and pushes a new frame, a Respond removes the top and changes *)
(* only the frame directly beneath it. All frames strictly below those are   *)
(* unchanged by the step, so a caller frame's contents are frozen while any  *)
(* of its callees is on the stack.                                           *)
C23_FramesBelowUntouched ==
    N > 0 =>
        /\ \A d \in 1..Untouched : d <= Len(stack) /\ stack[d] = Before(N).stack[d]
        /\ Len(stack) =
              IF LastOk /\ LastStep.cls = "Call" THEN Len(Before(N).stack) + 1
              ELSE IF LastStep.cls = "Respond" /\ Before(N).stack # <<>>
                   THEN Len(Before(N).stack) - 1
              ELSE Len(Before(N).stack)
        /\ \A i \in 1..N :
              PushedFor(i) => CallerAt(N) = After(i).stack[Len(After(i).stack) - 1]

C23_Witness ==
    /\ LastOk /\ LastStep.cls = "Respond"
    /\ Len(stack) = 2
    /\ stack[1].steps # <<>>
    /\ stack[2] # Before(N).stack[2]
    /\ \E i \in 1..N : PushedFor(i) /\ i + 1 < N /\ Ok(i + 1)

-----------------------------------------------------------------------------
\* what a Jump does to last_prompt_id of the top frame
C24_JumpSetsPromptId ==
    (LastOk /\ LastStep.cls = "Jump") =>
        Top(stack).last_prompt_id =
            IF AttributedTo(Top(Before(N).stack), LastStep)
            THEN LastStep.prompt_id
            ELSE Top(Before(N).stack).last_prompt_id

\* step N-1 is a Jump of the active agent of the top frame and step N is a
\* step of that agent of one of the classes
AfterJump(classes) ==
    /\ N >= 2 /\ Ok(N - 1) /\ LastOk
    /\ tape[N - 1].cls = "Jump"
    /\ AttributedTo(Top(Before(N - 1).stack), tape[N - 1])
    /\ LastStep.cls \in classes
    /\ AttributedTo(Top(Before(N).stack), LastStep)
\* next_node, after step N, of the frame that was on top at the Jump
JumpedFrameNode == stack[Len(Before(N).stack)].next_node
SamePromptId == LastStep.prompt_id = tape[N - 1].prompt_id

(* C24 as claimed: a Jump attributed to the active agent of the top frame    *)
(* sets the frame's last_prompt_id to the Jump's prompt_id, a Jump not       *)
(* attributed to it leaves last_prompt_id unchanged; after Jump(next_node =  *)
(* n) with prompt_id p, a following non-Jump AgentStep by the active agent   *)
(* with prompt_id p leaves next_node at n, one with a different prompt_id    *)
(* makes it n + 1.                                                           *)
C24_Original ==
    /\ C24_JumpSetsPromptId
    /\ AfterJump({"AgentStep", "Broadcast", "Call"}) =>
          JumpedFrameNode =
              IF SamePromptId THEN tape[N - 1].next_node ELSE tape[N - 1].next_node + 1

(* C24 as amended: as claimed for a following generic AgentStep or Broadcast *)
(* by the active agent; a following Call by the active agent leaves the      *)
(* frame's next_node at n whatever its prompt_id, and leaves the frame's     *)
(* last_prompt_id at p.                                                      *)
C24_AfterJump ==
    /\ C24_JumpSetsPromptId
    /\ AfterJump({"AgentStep", "Broadcast"}) =>
          JumpedFrameNode =
              IF SamePromptId THEN tape[N - 1].next_node ELSE tape[N - 1].next_node + 1
    /\ AfterJump({"Call"}) =>
          /\ JumpedFrameNode = tape[N - 1].next_node
          /\ stack[Len(Before(N).stack)].last_prompt_id = tape[N - 1].prompt_id

C24_Witness ==
    /\ AfterJump({"Call"}) /\ ~SamePromptId
    /\ Len(stack) = Len(Before(N).stack) + 1
    /\ Top(Before(N - 1).stack).last_prompt_id # tape[N - 1].prompt_id
    /\ JumpedFrameNode = tape[N - 1].next_node

\* a generic step with the Jump's prompt id left the node where the Jump put it
C24_SamePromptReached ==
    /\ AfterJump({"AgentStep"}) /\ SamePromptId
    /\ Top(Before(N - 1).stack).last_prompt_id # tape[N - 1].prompt_id
    /\ Top(Before(N - 1).stack).next_node # tape[N - 1].next_node

====
